---- MODULE Spec2Model ----
(***************************************************************************)
(* Model of the language-intelligence layer of mermaid-viewer.             *)
(*                                                                         *)
(* Part 1: the validation effect of MermaidEditor                          *)
(* (src/src/components/MermaidEditor.tsx, lines 27-83): a React effect     *)
(* keyed on the `value` prop arms a 500 ms timer, its cleanup clears the   *)
(* timer, and the timer callback `validate` awaits mermaid.parse(value)    *)
(* and then replaces the markers owned by "mermaid".                       *)
(*                                                                         *)
(* Time is the number of milliseconds since the timer was last armed,      *)
(* saturating at the debounce delay.  A timer that is due fires before     *)
(* any later edit is processed.                                            *)
(***************************************************************************)
EXTENDS Integers, Sequences, FiniteSets, TLC

\* ---------------------------------------------------------------- bounds
\* number of buffer changes explored after the initial mount
MaxEdits == 3
\* granularity of the passage of time, in ms
TickMs == 250

\* ------------------------------------------------------- program constants
\* setTimeout(validate, 500)
DEBOUNCE_MS == 500

\* App.tsx DEFAULT_DIAGRAM, the content the editor is mounted with
DEFAULT_DIAGRAM ==
  "graph TD\n    A[Start] --> B{Decision}\n    B -->|Yes| C[Action 1]\n    B -->|No| D[Action 2]\n    C --> E[End]\n    D --> E"

\* Buffer contents explored.  Each stands for one class of validator outcome.
Texts ==
  { DEFAULT_DIAGRAM,          \* parses
    "graph LR\n    A --> B",  \* parses
    "graph TD\n    A -->",    \* parser error with hash.loc and a message
    "graph TD\n    A ==",     \* parser error with hash.loc, empty message
    "bogus",                  \* error without hash (unknown diagram type)
    "  \n" }                  \* whitespace-only buffer

\* Contents explored for the failure modes of the validator: beside the
\* error objects above, a content on which mermaid.parse rejects with a
\* string primitive and one on which it rejects with undefined.
FaultTexts ==
  { DEFAULT_DIAGRAM,
    "graph TD\n    A -->",
    "graph TD\n    A ==",
    "bogus",
    "reject-string",
    "reject-undefined" }

\* diagram.trim() === "" on the contents above
IsBlank(text) == text \in {"", "  \n"}

\* The value mermaid.parse(text) settles with: "ok" when the promise
\* fulfils, otherwise the rejection value as the catch clause sees it
\* (hasLoc: error.hash && error.hash.loc is truthy; message: error.message,
\* "" when absent or empty).  kind is "error" for an object, "primitive"
\* for a string or number (its properties read as undefined) and "nullish"
\* for null or undefined (reading a property of it throws a TypeError).
NoLoc == [first_line |-> 0, last_line |-> 0, first_column |-> 0, last_column |-> 0]

Parse(text) ==
  CASE text = "graph TD\n    A -->" ->
         [kind |-> "error", hasLoc |-> TRUE,
          loc |-> [first_line |-> 2, last_line |-> 3,
                   first_column |-> 4, last_column |-> 9],
          message |-> "Parse error on line 2"]
    [] text = "graph TD\n    A ==" ->
         [kind |-> "error", hasLoc |-> TRUE,
          loc |-> [first_line |-> 2, last_line |-> 2,
                   first_column |-> 6, last_column |-> 8],
          message |-> ""]
    [] text = "bogus" ->
         [kind |-> "error", hasLoc |-> FALSE, loc |-> NoLoc,
          message |-> "No diagram type detected"]
    [] text = "  \n" ->
         [kind |-> "error", hasLoc |-> FALSE, loc |-> NoLoc,
          message |-> "No diagram type detected"]
    [] text = "reject-string" ->
         [kind |-> "primitive", hasLoc |-> FALSE, loc |-> NoLoc,
          message |-> ""]
    [] text = "reject-undefined" ->
         [kind |-> "nullish", hasLoc |-> FALSE, loc |-> NoLoc,
          message |-> ""]
    [] OTHER ->
         [kind |-> "ok", hasLoc |-> FALSE, loc |-> NoLoc, message |-> ""]

\* monaco.MarkerSeverity.Error
SeverityError == "Error"

\* error.message || "Syntax Error"
MessageOf(error) == IF error.message # "" THEN error.message ELSE "Syntax Error"

\* the marker of the error.hash.loc branch
LocMarkerSwapped(error) ==
  [startLineNumber |-> error.loc.first_line,
   startColumn     |-> error.loc.last_line,
   endLineNumber   |-> error.loc.first_column,
   endColumn       |-> error.loc.last_column,
   message         |-> MessageOf(error),
   severity        |-> SeverityError]

LocMarker(error) ==
  [startLineNumber |-> error.loc.first_line,
   startColumn     |-> error.loc.first_column,
   endLineNumber   |-> error.loc.last_line,
   endColumn       |-> error.loc.last_column,
   message         |-> MessageOf(error),
   severity        |-> SeverityError]

\* the marker of the fallback branch
FallbackMarkerAtZero(error) ==
  [startLineNumber |-> 0,
   startColumn     |-> 0,
   endLineNumber   |-> 0,
   endColumn       |-> 0,
   message         |-> MessageOf(error),
   severity        |-> SeverityError]

FallbackMarker(error) ==
  [startLineNumber |-> 1,
   startColumn     |-> 1,
   endLineNumber   |-> 1,
   endColumn       |-> 1,
   message         |-> MessageOf(error),
   severity        |-> SeverityError]

\* The third argument of the setModelMarkers call made when the awaited
\* mermaid.parse settles with `outcome`.
MarkersFor(outcome) ==
  IF outcome.kind = "ok" THEN << >>
  ELSE IF outcome.hasLoc THEN << LocMarker(outcome) >>
  ELSE << FallbackMarker(outcome) >>

\* setModelMarkers(model, "mermaid", new) replaces the owner's markers
SetModelMarkersAppend(old, new) == old \o new

SetModelMarkers(old, new) == new

\* the catch clause evaluates error.hash first: on null or undefined that
\* read throws, and the exception leaves validate() through its promise
CatchThrows(outcome) == outcome.kind = "nullish"

\* validate() after its await: the try branch when mermaid.parse fulfilled,
\* the catch branch when it rejected
SettleKeepOnSuccess(old, outcome) ==
  IF outcome.kind = "ok"
    THEN old
    ELSE IF CatchThrows(outcome)
      THEN old
      ELSE SetModelMarkers(old, MarkersFor(outcome))

Settle(old, outcome) ==
  IF outcome.kind = "ok"
    THEN SetModelMarkers(old, << >>)
    ELSE IF CatchThrows(outcome)
      THEN old
      ELSE SetModelMarkers(old, MarkersFor(outcome))

VARIABLES
  value,        \* the `value` prop: the buffer content
  mounted,      \* the component is mounted (the effect is live)
  editorReady,  \* editorRef.current and monacoRef.current are set
  timers,       \* armed timers: closure's value, edit number, ms left
  clock,        \* ms since the last buffer change, at most DEBOUNCE_MS
  inflight,     \* mermaid.parse calls awaited by a validate() invocation
  markers,      \* the markers owned by "mermaid" on the editor's model
  editLog,      \* history: the buffer changes, each with the gap before it
  calls,        \* history: the mermaid.parse invocations, in order
  resolved,     \* history: the settled invocations, in order of settling
  unhandled     \* a validate() promise has rejected with nobody handling it

editorVars == << value, mounted, editorReady, timers, clock, inflight,
                 markers, editLog, calls, resolved, unhandled >>

\* Part 2: the host editing surface (the monaco singleton) as
\* handleEditorWillMount sees it
VARIABLES
  languages,    \* monaco.languages.getLanguages(): the registered ids
  registered,   \* per service, how many times it was registered for mermaid
  hostMounts,   \* calls of handleEditorWillMount so far
  liveEditors   \* editor components currently mounted on the host

hostVars == << languages, registered, hostMounts, liveEditors >>

\* Part 3: one run of provideDocumentFormattingEdits.  Texts and lines
\* are sequences of one-character strings.
VARIABLES
  fLines,       \* lines: text.split("\n")
  fI,           \* the loop index i, counted from 1
  fIndent,      \* indentLevel
  fOut,         \* formattedLines
  fPc,          \* "idle", "loop" (inside the for loop) or "done"
  fResult,      \* the text of the returned edit
  fPass,        \* 1: formatting the input, 2: formatting the first result
  fFirst        \* the result of pass 1

fmtVars == << fLines, fI, fIndent, fOut, fPc, fResult, fPass, fFirst >>

\* Part 4: the Monarch lexer running the tokenizer rules on one line
VARIABLES
  lxLine,       \* the line being tokenized
  lxPos,        \* the position of the next character, counted from 1
  lxStack,      \* the lexer state stack, the current state last
  lxSpans,      \* the classified spans so far: text and token class
  lxPc          \* "idle", "next" (between lines), "scan", "done" or
                \* "error" (the lexer threw)

lexVars == << lxLine, lxPos, lxStack, lxSpans, lxPc >>

\* Part 5: one buffer and cursor position handed to provideCompletionItems
\* and to provideHover
VARIABLES
  pBuffer,      \* the lines of the model
  pLineNo,      \* position.lineNumber
  pCol,         \* position.column: the cursor stands before this character
  cResult,      \* << >> until provideCompletionItems has returned its value
  hResult       \* << >> until provideHover has returned its value

provVars == << pBuffer, pLineNo, pCol, cResult, hResult >>

\* Part 6: the MermaidViewer component, the renderer's global
\* configuration and the exports of App
VARIABLES
  vDiagram,           \* the diagram prop
  vTheme,             \* the theme derived from the user's setting
  vMounted,           \* the component is mounted (mermaidRef.current is set)
  passes,             \* the runs of the render effect, in the order started
  innerHTML,          \* mermaidRef.current.innerHTML
  isRendering,        \* the isRendering state
  viewerError,        \* the error state: << >> for null, else << message >>
  renderComplete,     \* << >>, or << the argument of the last call of
                      \* onRenderComplete >>
  configTheme,        \* theme of the configuration given to mermaid.initialize
  exports             \* the calls of renderLightMermaid in flight, in the
                      \* order started

viewerVars == << vDiagram, vTheme, vMounted, passes, innerHTML, isRendering,
                 viewerError, renderComplete, configTheme, exports >>

vars == << editorVars, hostVars, fmtVars, lexVars, provVars, viewerVars >>

\* what the actions of one part leave alone
otherThanEditor == << hostVars, fmtVars, lexVars, provVars, viewerVars >>
otherThanHost == << editorVars, fmtVars, lexVars, provVars, viewerVars >>
otherThanFmt == << editorVars, hostVars, lexVars, provVars, viewerVars >>
otherThanLex == << editorVars, hostVars, fmtVars, provVars, viewerVars >>
otherThanProv == << editorVars, hostVars, fmtVars, lexVars, viewerVars >>
otherThanViewer == << editorVars, hostVars, fmtVars, lexVars, provVars >>

Min(a, b) == IF a < b THEN a ELSE b

\* const timer = setTimeout(validate, 500), validate closing over `text`
NewTimer(text, edit) == [text |-> text, edit |-> edit, left |-> DEBOUNCE_MS]

\* the timer armed by the effect run of the current render
CurrentTimer == { t \in timers : t.edit = Len(editLog) }

\* some armed timer has reached its delay
Due == { t \in timers : t.left = 0 }

\* the services handleEditorWillMount registers for the language
Services == { "tokens", "configuration", "completion", "hover", "formatting" }

\* first run of the effect, with the App's initial diagram
EditorInit ==
  /\ value = DEFAULT_DIAGRAM
  /\ mounted = TRUE
  /\ editorReady = FALSE
  /\ timers = { NewTimer(DEFAULT_DIAGRAM, 0) }
  /\ clock = 0
  /\ inflight = {}
  /\ markers = << >>
  /\ editLog = << >>
  /\ calls = << >>
  /\ resolved = << >>
  /\ unhandled = FALSE

\* the host before the first handleEditorWillMount
HostIdle ==
  /\ languages = << "plaintext" >>
  /\ registered = [p \in Services |-> 0]
  /\ hostMounts = 0
  /\ liveEditors = 0

\* no formatting request is running
FmtIdle ==
  /\ fLines = << >>
  /\ fI = 1
  /\ fIndent = 0
  /\ fOut = << >>
  /\ fPc = "idle"
  /\ fResult = << >>
  /\ fPass = 1
  /\ fFirst = << >>

\* no line is being tokenized
LexIdle ==
  /\ lxLine = << >>
  /\ lxPos = 1
  /\ lxStack = << "root" >>
  /\ lxSpans = << >>
  /\ lxPc = "idle"

\* no completion or hover request has been made
ProvIdle ==
  /\ pBuffer = << << >> >>
  /\ pLineNo = 1
  /\ pCol = 1
  /\ cResult = << >>
  /\ hResult = << >>

\* innerHTML = ""
NoSvg == [diagram |-> "", theme |-> ""]

\* the viewer has not been mounted
ViewerIdle ==
  /\ vDiagram = DEFAULT_DIAGRAM
  /\ vTheme = "default"
  /\ vMounted = FALSE
  /\ passes = << >>
  /\ innerHTML = NoSvg
  /\ isRendering = FALSE
  /\ viewerError = << >>
  /\ renderComplete = << >>
  /\ configTheme = "default"
  /\ exports = << >>

Init ==
  /\ EditorInit
  /\ HostIdle
  /\ FmtIdle
  /\ LexIdle
  /\ ProvIdle
  /\ ViewerIdle

\* handleEditorDidMount: the refs are set once the editor has loaded
EditorDidMount ==
  /\ mounted
  /\ ~editorReady
  /\ editorReady' = TRUE
  /\ UNCHANGED << value, mounted, timers, clock, inflight, markers,
                  editLog, calls, resolved, unhandled >>
  /\ UNCHANGED otherThanEditor

\* onChange -> setDiagram -> re-render with a new `value`: the effect's
\* cleanup clears the timer of the previous run, the effect arms a new one.
EditNoClear(v) ==
  /\ mounted
  /\ editorReady
  /\ v # value
  /\ Len(editLog) < MaxEdits
  /\ Due = {}
  /\ value' = v
  /\ timers' = timers \cup { NewTimer(v, Len(editLog) + 1) }
  /\ clock' = 0
  /\ editLog' = Append(editLog, [text |-> v, gap |-> clock])
  /\ UNCHANGED << mounted, editorReady, inflight, markers, calls, resolved, unhandled >>
  /\ UNCHANGED otherThanEditor

Edit(v) ==
  /\ mounted
  /\ editorReady
  /\ v # value
  /\ Len(editLog) < MaxEdits
  /\ Due = {}
  /\ value' = v
  /\ timers' = (timers \ CurrentTimer) \cup { NewTimer(v, Len(editLog) + 1) }
  /\ clock' = 0
  /\ editLog' = Append(editLog, [text |-> v, gap |-> clock])
  /\ UNCHANGED << mounted, editorReady, inflight, markers, calls, resolved, unhandled >>
  /\ UNCHANGED otherThanEditor

\* the time that passes in one step: up to the next timer that becomes due
Step ==
  LET lefts == { t.left : t \in timers }
  IN  IF \E l \in lefts : l < TickMs
        THEN CHOOSE l \in lefts : \A m \in lefts : l <= m
        ELSE TickMs

\* time passes, but not beyond the moment an armed timer is due
Tick ==
  /\ Due = {}
  /\ timers # {} \/ clock < DEBOUNCE_MS
  /\ clock' = Min(clock + Step, DEBOUNCE_MS)
  /\ timers' = { [t EXCEPT !.left = @ - Step] : t \in timers }
  /\ UNCHANGED << value, mounted, editorReady, inflight, markers,
                  editLog, calls, resolved, unhandled >>
  /\ UNCHANGED otherThanEditor

\* the timer callback: validate() up to its await
TimerFire(t) ==
  /\ t \in Due
  /\ timers' = timers \ {t}
  /\ IF editorReady
       THEN /\ inflight' = inflight \cup { [text |-> t.text, edit |-> t.edit] }
            /\ calls' = Append(calls, [text |-> t.text, edit |-> t.edit])
       ELSE UNCHANGED << inflight, calls >>
  /\ UNCHANGED << value, mounted, editorReady, clock, markers, editLog,
                  resolved, unhandled >>
  /\ UNCHANGED otherThanEditor

\* mermaid.parse settles: validate() from its await to its end
Resolve(c) ==
  /\ c \in inflight
  /\ inflight' = inflight \ {c}
  /\ markers' = Settle(markers, Parse(c.text))
  /\ resolved' = Append(resolved, c)
  /\ unhandled' = (unhandled \/ CatchThrows(Parse(c.text)))
  /\ UNCHANGED << value, mounted, editorReady, timers, clock, editLog, calls >>
  /\ UNCHANGED otherThanEditor

\* unmount: the effect's cleanup, clearTimeout(timer)
TeardownNoClear ==
  /\ mounted
  /\ mounted' = FALSE
  /\ UNCHANGED << value, editorReady, timers, clock, inflight, markers,
                  editLog, calls, resolved, unhandled >>
  /\ UNCHANGED otherThanEditor

Teardown ==
  /\ mounted
  /\ mounted' = FALSE
  /\ timers' = timers \ CurrentTimer
  /\ UNCHANGED << value, editorReady, clock, inflight, markers, editLog,
                  calls, resolved, unhandled >>
  /\ UNCHANGED otherThanEditor

Next ==
  \/ EditorDidMount
  \/ \E v \in Texts : Edit(v)
  \/ Tick
  \/ \E t \in timers : TimerFire(t)
  \/ \E c \in inflight : Resolve(c)
  \/ Teardown

Spec == Init /\ [][Next]_vars

\* the same pipeline, driven with the contents of FaultTexts
FaultNext ==
  \/ EditorDidMount
  \/ \E v \in FaultTexts : Edit(v)
  \/ Tick
  \/ \E t \in timers : TimerFire(t)
  \/ \E c \in inflight : Resolve(c)
  \/ Teardown

SpecFaults == Init /\ [][FaultNext]_vars

\* ------------------------------------------------------------------------
\* Properties of the Diagnostics Pipeline
\* ------------------------------------------------------------------------

\* positions in `calls` of the validator invocations made for edit number i
CallsFor(i) == { k \in 1..Len(calls) : calls[k].edit = i }

\* the most recent validator invocation
LastCall == calls[Len(calls)]

\* the most recently settled invocation
LastResolved == resolved[Len(resolved)]

\* C1: a validation started for an older content never changes the marker
\* set once a newer validation has started; when every invocation has
\* settled the marker set is the outcome of the most recent invocation,
\* whatever the order of settling.
C1_StaleResultDiscarded ==
  (Len(calls) >= 2 /\ inflight = {})
    => markers = MarkersFor(Parse(LastCall.text))

\* C2: every buffer change replaces the armed timer by a new 500 ms timer.
\* An edit followed by another edit less than 500 ms later never reaches
\* the validator; an edit followed by 500 ms of quiet reaches it exactly
\* once, with that edit's content.
C2_DebounceOncePerBurst ==
  /\ mounted => \A t \in timers : t.text = value /\ t.left = DEBOUNCE_MS - clock
  /\ Cardinality(timers) <= 1
  /\ \A i \in 1..Len(editLog) :
       LET n == Cardinality(CallsFor(i))
           superseded == i < Len(editLog) /\ editLog[i + 1].gap < DEBOUNCE_MS
           quiet == IF i < Len(editLog)
                      THEN editLog[i + 1].gap >= DEBOUNCE_MS
                      ELSE mounted /\ timers = {}
       IN  /\ superseded => n = 0
           /\ quiet => n = 1
           /\ \A k \in CallsFor(i) : calls[k].text = editLog[i].text

\* a burst of two edits less than 500 ms apart has produced one validator
\* invocation, for the second edit
C2_Witness ==
  /\ Len(editLog) >= 2
  /\ editLog[2].gap < DEBOUNCE_MS
  /\ CallsFor(1) = {}
  /\ Cardinality(CallsFor(2)) = 1
  /\ calls[Len(calls)].text = editLog[2].text

\* C3: once edits have stopped, no timer is armed and no validator call is
\* in flight, the marker set is the validation outcome of the buffer.
C3_SettlesToLatestContent ==
  (mounted /\ editorReady /\ timers = {} /\ inflight = {})
    => markers = MarkersFor(Parse(value))

\* C4: while the buffer is blank the marker set is empty, no timer is
\* armed, and the validator has not been invoked for that content.
C4_BlankSkipsValidation ==
  (mounted /\ IsBlank(value))
    => /\ markers = << >>
       /\ timers = {}
       /\ CallsFor(Len(editLog)) = {}

\* C5: after teardown no step changes the marker set.
C5_NoMarkerUpdateAfterTeardown ==
  [][ ~mounted => markers' = markers ]_vars

\* C6: teardown cancels the armed timer, and from teardown on the
\* validator is never invoked.
C6_TeardownCancelsTimer ==
  [][ ~mounted' => (timers' = {} /\ calls' = calls) ]_vars

\* torn down while the timer of the last edit was armed; the debounce delay
\* has since elapsed and the validator was never invoked for that edit
C6_Witness ==
  /\ ~mounted
  /\ Len(editLog) >= 1
  /\ CallsFor(Len(editLog)) = {}
  /\ clock = DEBOUNCE_MS

\* C7: a validator failure that carries a location sets the marker set to
\* exactly one Error marker at (first_line, first_column, last_line,
\* last_column) with the error's message, "Syntax Error" when it has none.
C7_LocatedErrorMarker ==
  [][ \A c \in inflight :
        LET e == Parse(c.text)
        IN  (c \notin inflight' /\ e.kind = "error" /\ e.hasLoc)
              => markers' =
                   << [startLineNumber |-> e.loc.first_line,
                       startColumn     |-> e.loc.first_column,
                       endLineNumber   |-> e.loc.last_line,
                       endColumn       |-> e.loc.last_column,
                       message         |-> IF e.message = ""
                                             THEN "Syntax Error"
                                             ELSE e.message,
                       severity        |-> "Error"] >> ]_vars

\* a located error has settled last and its marker spans lines 2 to 3
C7_Witness ==
  /\ Len(resolved) >= 1
  /\ Parse(LastResolved.text).hasLoc
  /\ Len(markers) = 1
  /\ markers[1].startLineNumber = 2
  /\ markers[1].endLineNumber = 3
  /\ markers[1].startColumn = 4
  /\ markers[1].endColumn = 9

\* C8: a validator failure that carries no location sets the marker set to
\* exactly one marker at (1, 1, 1, 1) carrying the error's message.
C8_FallbackMarker ==
  [][ \A c \in inflight :
        LET e == Parse(c.text)
        IN  (c \notin inflight' /\ e.kind = "error" /\ ~e.hasLoc)
              => /\ Len(markers') = 1
                 /\ markers'[1].startLineNumber = 1
                 /\ markers'[1].startColumn = 1
                 /\ markers'[1].endLineNumber = 1
                 /\ markers'[1].endColumn = 1
                 /\ e.message # "" => markers'[1].message = e.message ]_vars

\* an error without location has settled last, after a located error
C8_Witness ==
  /\ Len(resolved) >= 2
  /\ Parse(LastResolved.text).kind = "error"
  /\ ~Parse(LastResolved.text).hasLoc
  /\ Parse(resolved[Len(resolved) - 1].text).hasLoc
  /\ Len(markers) = 1
  /\ markers[1].endColumn = 1
  /\ markers[1].message = "No diagram type detected"

\* C9: a validation pass that succeeds replaces the marker set by the
\* empty set, whatever markers were there.
C9_SuccessClearsMarkers ==
  [][ \A c \in inflight :
        (c \notin inflight' /\ Parse(c.text).kind = "ok")
          => markers' = << >> ]_vars

\* a success has settled right after a failure, for the current content
C9_Witness ==
  /\ Len(resolved) >= 2
  /\ Parse(LastResolved.text).kind = "ok"
  /\ LastResolved.text = value
  /\ Parse(resolved[Len(resolved) - 1].text).kind = "error"
  /\ markers = << >>

\* C10: the marker set holds zero markers or exactly one marker.
C10_AtMostOneMarker == Len(markers) <= 1

\* two failures have settled one after the other and one marker is live
C10_Witness ==
  /\ Len(resolved) >= 2
  /\ Parse(LastResolved.text).kind = "error"
  /\ Parse(resolved[Len(resolved) - 1].text).kind = "error"
  /\ Len(markers) = 1

\* C11: whatever value the validator fails with, the validation pass ends
\* without an unhandled rejection.
C11_NoUnhandledRejection == ~unhandled

\* ------------------------------------------------------------------------
\* Part 2: the Host Integration Shim, handleEditorWillMount
\* ------------------------------------------------------------------------

\* number of editor mounts explored
MaxMounts == 3

\* languages the host may know before the first mount
BuiltinLanguages == { "plaintext", "json", "markdown", "yaml" }

RECURSIVE ListsOver(_)
\* the lists without repetition over a set of ids
ListsOver(S) ==
  IF S = {} THEN { << >> }
  ELSE LET shorter == UNION { ListsOver(S \ {x}) : x \in S }
       IN  shorter \cup
           UNION { { << x >> \o l : l \in ListsOver(S \ {x}) } : x \in S }

\* monaco.languages.getLanguages().some((l) => l.id === "mermaid")
HasMermaid(list) == \E i \in 1..Len(list) : list[i] = "mermaid"

\* the registrations made inside the guard: register({ id: "mermaid" })
\* and one call per service
RegisterAll(counts) == [p \in Services |-> counts[p] + 1]

\* beforeMount={handleEditorWillMount}
EditorWillMountUnguarded ==
  /\ hostMounts < MaxMounts
  /\ hostMounts' = hostMounts + 1
  /\ liveEditors' = liveEditors + 1
  /\ languages' = Append(languages, "mermaid")
  /\ registered' = RegisterAll(registered)
  /\ UNCHANGED otherThanHost

EditorWillMount ==
  /\ hostMounts < MaxMounts
  /\ hostMounts' = hostMounts + 1
  /\ liveEditors' = liveEditors + 1
  /\ IF ~HasMermaid(languages)
       THEN /\ languages' = Append(languages, "mermaid")
            /\ registered' = RegisterAll(registered)
       ELSE UNCHANGED << languages, registered >>
  /\ UNCHANGED otherThanHost

\* an editor component unmounts; the monaco singleton keeps its registry
EditorUnmount ==
  /\ liveEditors > 0
  /\ liveEditors' = liveEditors - 1
  /\ UNCHANGED << languages, registered, hostMounts >>
  /\ UNCHANGED otherThanHost

HostInit ==
  /\ EditorInit
  /\ ViewerIdle
  /\ FmtIdle
  /\ LexIdle
  /\ ProvIdle
  /\ languages \in ListsOver(BuiltinLanguages)
  /\ registered = [p \in Services |-> 0]
  /\ hostMounts = 0
  /\ liveEditors = 0

HostNext ==
  \/ EditorWillMount
  \/ EditorUnmount

SpecHost == HostInit /\ [][HostNext]_vars

\* C12: over any sequence of mounts the language id and each of its five
\* services are registered exactly once, at the first mount.
C12_RegisteredOnce ==
  LET n == Cardinality({ i \in 1..Len(languages) : languages[i] = "mermaid" })
  IN  /\ n = (IF hostMounts >= 1 THEN 1 ELSE 0)
      /\ \A p \in Services : registered[p] = n

\* a third mount has happened, after an unmount, on a host that knew other
\* languages; everything is still registered once
C12_Witness ==
  /\ hostMounts = 3
  /\ liveEditors = 1
  /\ Len(languages) >= 3
  /\ registered["formatting"] = 1

\* ------------------------------------------------------------------------
\* Part 3: the Formatter, provideDocumentFormattingEdits
\* ------------------------------------------------------------------------

\* number of lines of the formatted texts
MaxLines == 3

\* const indentSize = 4
indentSize == 4

\* \w of the regular expressions
WordChars ==
  { "a", "b", "c", "d", "e", "f", "g", "h", "i", "j", "k", "l", "m",
    "n", "o", "p", "q", "r", "s", "t", "u", "v", "w", "x", "y", "z",
    "A", "B", "C", "D", "E", "F", "G", "H", "I", "J", "K", "L", "M",
    "N", "O", "P", "Q", "R", "S", "T", "U", "V", "W", "X", "Y", "Z",
    "0", "1", "2", "3", "4", "5", "6", "7", "8", "9", "_" }

\* the characters String.prototype.trim removes, among those explored
Whitespace == { " ", "\t", "\r", "\n" }

Max(a, b) == IF a > b THEN a ELSE b

RECURSIVE SplitNl(_)
\* text.split("\n")
SplitNl(text) ==
  IF \A k \in 1..Len(text) : text[k] # "\n"
    THEN << text >>
    ELSE LET k == CHOOSE n \in 1..Len(text) :
                    text[n] = "\n" /\ \A m \in 1..(n - 1) : text[m] # "\n"
         IN  << SubSeq(text, 1, k - 1) >> \o SplitNl(SubSeq(text, k + 1, Len(text)))

RECURSIVE JoinNl(_)
\* formattedLines.join("\n")
JoinNl(ls) ==
  IF Len(ls) = 0 THEN << >>
  ELSE IF Len(ls) = 1 THEN ls[1]
  ELSE ls[1] \o << "\n" >> \o JoinNl(Tail(ls))

RECURSIVE TrimStart(_)
TrimStart(line) ==
  IF Len(line) > 0 /\ line[1] \in Whitespace THEN TrimStart(Tail(line)) ELSE line

RECURSIVE TrimEnd(_)
TrimEnd(line) ==
  IF Len(line) > 0 /\ line[Len(line)] \in Whitespace
    THEN TrimEnd(SubSeq(line, 1, Len(line) - 1))
    ELSE line

\* lines[i].trim()
TrimEndOnly(line) == TrimEnd(line)

Trim(line) == TrimStart(TrimEnd(line))

\* " ".repeat(n)
SpacesHalf(n) == [k \in 1..(n \div 2) |-> " "]

Spaces(n) == [k \in 1..n |-> " "]

\* the subject starts with the literal
HasPrefix(line, literal) ==
  /\ Len(line) >= Len(literal)
  /\ SubSeq(line, 1, Len(literal)) = literal

\* \b between positions n and n + 1
IsWordAt(line, k) == k \in 1..Len(line) /\ line[k] \in WordChars
WordBoundary(line, n) == IsWordAt(line, n) # IsWordAt(line, n + 1)

\* the alternatives of blockOpeners
BlockOpenerKeywords ==
  { << "g", "r", "a", "p", "h" >>,
    << "f", "l", "o", "w", "c", "h", "a", "r", "t" >>,
    << "s", "u", "b", "g", "r", "a", "p", "h" >>,
    << "s", "e", "q", "u", "e", "n", "c", "e", "D", "i", "a", "g", "r", "a", "m" >>,
    << "c", "l", "a", "s", "s", "D", "i", "a", "g", "r", "a", "m" >>,
    << "s", "t", "a", "t", "e", "D", "i", "a", "g", "r", "a", "m" >>,
    << "s", "t", "a", "t", "e", "D", "i", "a", "g", "r", "a", "m", "-", "v", "2" >>,
    << "e", "r", "D", "i", "a", "g", "r", "a", "m" >>,
    << "g", "a", "n", "t", "t" >>,
    << "p", "i", "e" >>,
    << "j", "o", "u", "r", "n", "e", "y" >>,
    << "m", "i", "n", "d", "m", "a", "p" >>,
    << "t", "i", "m", "e", "l", "i", "n", "e" >>,
    << "b", "l", "o", "c", "k", "-", "b", "e", "t", "a" >> }

\* blockOpeners.test(line)
BlockOpeners(line) ==
  \E kw \in BlockOpenerKeywords : HasPrefix(line, kw) /\ WordBoundary(line, Len(kw))

\* blockClosers.test(line): /^end\b/
BlockClosers(line) ==
  HasPrefix(line, << "e", "n", "d" >>) /\ WordBoundary(line, 3)

\* indentLevel = Math.max(0, indentLevel - 1)
DedentUnfloored(level) == level - 1

Dedent(level) == Max(0, level - 1)

\* the lines the explored texts are made of
SampleLines ==
  { << >>,   \* empty line
    << " ", " " >>,   \* whitespace only
    << "e", "n", "d" >>,   \* closer
    << " ", " ", "e", "n", "d", " " >>,   \* closer with surrounding whitespace
    << "e", "n", "d", "x" >>,   \* identifier that starts with end
    << "g", "r", "a", "p", "h", " ", "T", "D" >>,   \* opener
    << " ", "s", "u", "b", "g", "r", "a", "p", "h", " ", "A" >>,   \* indented opener
    << "g", "r", "a", "p", "h", "s" >>,   \* identifier that starts with an opener
    << "\t", "A", "-", "-", ">", "B", " ", " " >>,   \* ordinary line
    << "p", "i", "e" >>    \* opener filling the line
  }

RECURSIVE LineSeqs(_)
\* the sequences of n sample lines
LineSeqs(n) ==
  IF n = 0 THEN { << >> }
  ELSE { Append(ls, l) : ls \in LineSeqs(n - 1), l \in SampleLines }

\* model.getValue() of the explored buffers
FormatInputs == { JoinNl(ls) : ls \in UNION { LineSeqs(n) : n \in 1..MaxLines } }

\* const lines = text.split("\n"); let indentLevel = 0; formattedLines = []
FormatBegin(text, pass) ==
  /\ fLines' = SplitNl(text)
  /\ fI' = 1
  /\ fIndent' = 0
  /\ fOut' = << >>
  /\ fPc' = "loop"
  /\ fPass' = pass

\* formattedLines.push(""); continue: a blank line takes no indentation
PushBlankIndented(out, level) == Append(out, Spaces(level * indentSize))

PushBlank(out, level) == Append(out, << >>)

\* one iteration of the for loop, with the indent raised before the line
\* is emitted
FormatLineOpenerFirst ==
  /\ fPc = "loop"
  /\ fI <= Len(fLines)
  /\ LET line == Trim(fLines[fI])
     IN  IF Len(line) = 0
           THEN /\ fOut' = PushBlank(fOut, fIndent)
                /\ fIndent' = fIndent
           ELSE LET raised == IF BlockOpeners(line) THEN fIndent + 1 ELSE fIndent
                    level == IF BlockClosers(line) THEN Dedent(raised) ELSE raised
                IN  /\ fOut' = Append(fOut, Spaces(level * indentSize) \o line)
                    /\ fIndent' = level
  /\ fI' = fI + 1
  /\ UNCHANGED << fLines, fPc, fResult, fPass, fFirst >>
  /\ UNCHANGED otherThanFmt

\* one iteration of the for loop
FormatLine ==
  /\ fPc = "loop"
  /\ fI <= Len(fLines)
  /\ LET line == Trim(fLines[fI])
     IN  IF Len(line) = 0
           THEN /\ fOut' = PushBlank(fOut, fIndent)
                /\ fIndent' = fIndent
           ELSE LET level == IF BlockClosers(line) THEN Dedent(fIndent) ELSE fIndent
                IN  /\ fOut' = Append(fOut, Spaces(level * indentSize) \o line)
                    /\ fIndent' = IF BlockOpeners(line) THEN level + 1 ELSE level
  /\ fI' = fI + 1
  /\ UNCHANGED << fLines, fPc, fResult, fPass, fFirst >>
  /\ UNCHANGED otherThanFmt

\* the loop has ended: return the edit with formattedLines.join("\n")
FormatReturn ==
  /\ fPc = "loop"
  /\ fI > Len(fLines)
  /\ fPc' = "done"
  /\ fResult' = JoinNl(fOut)
  /\ fFirst' = IF fPass = 1 THEN JoinNl(fOut) ELSE fFirst
  /\ UNCHANGED << fLines, fI, fIndent, fOut, fPass >>
  /\ UNCHANGED otherThanFmt

\* the edit has been applied and the buffer is formatted again
Reformat ==
  /\ fPc = "done"
  /\ fPass = 1
  /\ FormatBegin(fResult, 2)
  /\ UNCHANGED << fResult, fFirst >>
  /\ UNCHANGED otherThanFmt

FmtInit ==
  /\ EditorInit
  /\ ViewerIdle
  /\ HostIdle
  /\ LexIdle
  /\ ProvIdle
  /\ \E text \in FormatInputs :
       /\ fLines = SplitNl(text)
       /\ fI = 1
       /\ fIndent = 0
       /\ fOut = << >>
       /\ fPc = "loop"
       /\ fResult = << >>
       /\ fPass = 1
       /\ fFirst = << >>

FmtNext ==
  \/ FormatLine
  \/ FormatReturn
  \/ Reformat

SpecFormat == FmtInit /\ [][FmtNext]_vars

\* C13: formatting the output of format(x) again yields format(x).
C13_FormatIdempotent ==
  (fPc = "done" /\ fPass = 2) => fResult = fFirst

\* the second pass has returned for an input whose indentation and
\* trailing whitespace the first pass changed, below an opener
C13_Witness ==
  /\ fPc = "done"
  /\ fPass = 2
  /\ fResult = fFirst
  /\ Len(fLines) = 3
  /\ fLines[1] = << "g", "r", "a", "p", "h", " ", "T", "D" >>
  /\ fLines[2] = << " ", " ", " ", " ", "A", "-", "-", ">", "B" >>
  /\ fLines[3] = << "e", "n", "d" >>

\* the number of spaces an emitted line starts with
Indentation(out) ==
  CHOOSE n \in 0..Len(out) :
    /\ \A k \in 1..n : out[k] = " "
    /\ n = Len(out) \/ out[n + 1] # " "

RECURSIVE OpenerOf(_, _, _)
\* the opener line that a closer placed after line i closes, 0 when there
\* is none: the nearest opener above that no closer in between has closed
OpenerOf(lines, i, depth) ==
  IF i = 0 THEN 0
  ELSE LET t == Trim(lines[i])
       IN  IF BlockClosers(t) THEN OpenerOf(lines, i - 1, depth + 1)
           ELSE IF BlockOpeners(t)
             THEN IF depth = 0 THEN i ELSE OpenerOf(lines, i - 1, depth - 1)
             ELSE OpenerOf(lines, i - 1, depth)

\* the nearest non-blank line above line j, 0 when there is none
PrevNonBlank(lines, j) ==
  IF \E p \in 1..(j - 1) : Trim(lines[p]) # << >>
    THEN CHOOSE p \in 1..(j - 1) :
           /\ Trim(lines[p]) # << >>
           /\ \A q \in (p + 1)..(j - 1) : Trim(lines[q]) = << >>
    ELSE 0

\* the indentation in force after line p has been emitted
InForceAfter(p) ==
  IF p = 0 THEN 0
  ELSE Indentation(fOut[p])
         + (IF BlockOpeners(Trim(fLines[p])) THEN indentSize ELSE 0)

\* C14: an `end` line is emitted one level below the level in force (not
\* below 0), every other line at the level in force, and an opener raises
\* the level only for the lines after it; so an `end` has the indentation
\* of the opener line it closes.
C14_CloserBeforeOpenerAfter ==
  \A j \in 1..Len(fOut) :
    LET t == Trim(fLines[j])
        inForce == InForceAfter(PrevNonBlank(fLines, j))
        opener == OpenerOf(fLines, j - 1, 0)
    IN  t # << >> =>
          /\ BlockClosers(t) => Indentation(fOut[j]) = Max(0, inForce - indentSize)
          /\ ~BlockClosers(t) => Indentation(fOut[j]) = inForce
          /\ (BlockClosers(t) /\ opener # 0)
               => Indentation(fOut[j]) = Indentation(fOut[opener])

\* a nested block has been formatted: the subgraph line and its `end` are
\* both one level in
C14_Witness ==
  /\ fPc = "done"
  /\ fPass = 1
  /\ fOut = << << "g", "r", "a", "p", "h", " ", "T", "D" >>,
               << " ", " ", " ", " ", "s", "u", "b", "g", "r", "a", "p", "h", " ", "A" >>,
               << " ", " ", " ", " ", "e", "n", "d" >> >>

\* C20: indentLevel is never negative, and an `end` line met at level 0 is
\* emitted without indentation and leaves the level at 0.
C20_IndentNeverNegative ==
  /\ [](fIndent >= 0)
  /\ [][ ( /\ fPc = "loop"
           /\ fI <= Len(fLines)
           /\ fI' = fI + 1
           /\ BlockClosers(Trim(fLines[fI]))
           /\ fIndent = 0 )
         => ( /\ fOut' = Append(fOut, Trim(fLines[fI]))
              /\ fIndent' = 0 ) ]_vars

\* two unmatched `end` lines have been emitted at level 0
C20_Witness ==
  /\ fPc = "loop"
  /\ fPass = 1
  /\ fI = 3
  /\ fIndent = 0
  /\ fLines[2] = << " ", " ", "e", "n", "d", " " >>
  /\ fOut = << << "e", "n", "d" >>, << "e", "n", "d" >> >>

\* ------------------------------------------------------------------------
\* Part 4: the Tokenizer, the rules given to setMonarchTokensProvider
\* ------------------------------------------------------------------------

\* length of the lines tokenized
MaxLineLen == 4

\* keywords: [...] of the tokens provider
TokenizerKeywords ==
  { << "g", "r", "a", "p", "h" >>,
    << "f", "l", "o", "w", "c", "h", "a", "r", "t" >>,
    << "T", "D" >>,
    << "D", "T" >>,
    << "T", "B" >>,
    << "B", "T" >>,
    << "R", "L" >>,
    << "L", "R" >>,
    << "s", "u", "b", "g", "r", "a", "p", "h" >>,
    << "e", "n", "d" >>,
    << "c", "l", "a", "s", "s", "D", "i", "a", "g", "r", "a", "m" >>,
    << "s", "t", "a", "t", "e", "D", "i", "a", "g", "r", "a", "m" >>,
    << "s", "t", "a", "t", "e", "D", "i", "a", "g", "r", "a", "m", "-", "v", "2" >>,
    << "s", "e", "q", "u", "e", "n", "c", "e", "D", "i", "a", "g", "r", "a", "m" >>,
    << "g", "a", "n", "t", "t" >>,
    << "p", "i", "e" >>,
    << "e", "r", "D", "i", "a", "g", "r", "a", "m" >>,
    << "j", "o", "u", "r", "n", "e", "y" >>,
    << "g", "i", "t", "G", "r", "a", "p", "h" >>,
    << "m", "i", "n", "d", "m", "a", "p" >>,
    << "t", "i", "m", "e", "l", "i", "n", "e" >>,
    << "z", "e", "n", "u", "m", "l" >>,
    << "s", "a", "n", "k", "e", "y", "-", "b", "e", "t", "a" >>,
    << "q", "u", "a", "d", "r", "a", "n", "t", "C", "h", "a", "r", "t" >>,
    << "x", "y", "C", "h", "a", "r", "t" >>,
    << "b", "l", "o", "c", "k", "-", "b", "e", "t", "a" >>,
    << "c", "l", "a", "s", "s" >>,
    << "p", "a", "r", "t", "i", "c", "i", "p", "a", "n", "t" >>,
    << "a", "c", "t", "o", "r" >>,
    << "l", "o", "o", "p" >>,
    << "a", "l", "t" >>,
    << "o", "p", "t" >>,
    << "r", "e", "c", "t" >>,
    << "n", "o", "t", "e" >>,
    << "o", "v", "e", "r" >>,
    << "r", "i", "g", "h", "t" >>,
    << "l", "e", "f", "t" >>,
    << "o", "f" >>,
    << "b", "o", "x" >>,
    << "t", "i", "t", "l", "e" >>,
    << "a", "c", "c", "T", "i", "t", "l", "e" >>,
    << "a", "c", "c", "D", "e", "s", "c", "r" >>,
    << "s", "e", "c", "t", "i", "o", "n" >>,
    << "c", "l", "i", "c", "k" >>,
    << "c", "a", "l", "l", "b", "a", "c", "k" >>,
    << "l", "i", "n", "k", "S", "t", "y", "l", "e" >>,
    << "c", "l", "a", "s", "s", "D", "e", "f" >>,
    << "s", "t", "y", "l", "e" >>,
    << "f", "i", "l", "l" >>,
    << "s", "t", "r", "o", "k", "e" >>,
    << "s", "t", "r", "o", "k", "e", "-", "w", "i", "d", "t", "h" >>,
    << "c", "o", "l", "o", "r" >> }

\* [a-zA-Z]
Letters == WordChars \ { "0", "1", "2", "3", "4", "5", "6", "7", "8", "9", "_" }

RECURSIVE RunIn(_, _, _)
\* the length of the longest run of characters of S that starts at pos
RunIn(line, pos, S) ==
  IF pos <= Len(line) /\ line[pos] \in S THEN 1 + RunIn(line, pos + 1, S) ELSE 0

RECURSIVE RunNotIn(_, _, _)
\* the length of the longest run of characters outside S that starts at pos
RunNotIn(line, pos, S) ==
  IF pos <= Len(line) /\ line[pos] \notin S THEN 1 + RunNotIn(line, pos + 1, S) ELSE 0

\* /[^\\"]+/ with the + dropped
StringRunMayBeEmpty(line, pos) == RunNotIn(line, pos, { "\\", "\"" })

\* /[^\\"]+/ at pos: the length matched, -1 when it does not match
StringRun(line, pos) ==
  IF RunNotIn(line, pos, { "\\", "\"" }) >= 1
    THEN RunNotIn(line, pos, { "\\", "\"" })
    ELSE -1

\* /%%.*$/ stopping after the two percent signs
CommentRunPrefixOnly(line, pos) ==
  IF pos + 1 <= Len(line) /\ line[pos] = "%" /\ line[pos + 1] = "%"
    THEN 2 ELSE -1

\* /%%.*$/ at pos: the length matched, -1 when it does not match
CommentRun(line, pos) ==
  IF pos + 1 <= Len(line) /\ line[pos] = "%" /\ line[pos + 1] = "%"
    THEN Len(line) - pos + 1 ELSE -1

\* The length a rule's regular expression matches at pos (Monarch anchors
\* every rule at the current position), -1 when it does not match.
MatchLen(re, line, pos) ==
  CASE re = "comment" ->      \* /%%.*$/
         CommentRun(line, pos)
    [] re = "delimiter" ->    \* /\[|\]|\(|\)|\{|\}|>|--|==|:/
         IF line[pos] \in { "[", "]", "(", ")", "{", "}", ">" } THEN 1
         ELSE IF pos + 1 <= Len(line) /\ line[pos] = "-" /\ line[pos + 1] = "-" THEN 2
         ELSE IF pos + 1 <= Len(line) /\ line[pos] = "=" /\ line[pos + 1] = "=" THEN 2
         ELSE IF line[pos] = ":" THEN 1
         ELSE -1
    [] re = "quote" ->        \* /"/
         IF line[pos] = "\"" THEN 1 ELSE -1
    [] re = "identifier" ->   \* /[a-zA-Z][\w$]*/
         IF line[pos] \in Letters
           THEN 1 + RunIn(line, pos + 1, WordChars \cup { "$" })
           ELSE -1
    [] re = "stringRun" ->    \* /[^\\"]+/
         StringRun(line, pos)

\* tokenizer: { root: [...], string: [...] }, the rules in source order
Rules(state) ==
  IF state = "root"
    THEN << [re |-> "comment",    token |-> "comment",   next |-> ""],
            [re |-> "delimiter",  token |-> "delimiter", next |-> ""],
            [re |-> "quote",      token |-> "string",    next |-> "@string"],
            [re |-> "identifier", token |-> "@cases",    next |-> ""] >>
    ELSE << [re |-> "stringRun",  token |-> "string",    next |-> ""],
            [re |-> "quote",      token |-> "string",    next |-> "@pop"] >>

\* cases: { "@keywords": "keyword", "@default": "identifier" }
TokenClassByPrefix(rule, matched) ==
  IF rule.token = "@cases"
    THEN IF \E kw \in TokenizerKeywords : HasPrefix(matched, kw)
           THEN "keyword" ELSE "identifier"
    ELSE rule.token

TokenClass(rule, matched) ==
  IF rule.token = "@cases"
    THEN IF matched \in TokenizerKeywords THEN "keyword" ELSE "identifier"
    ELSE rule.token

\* the index of the first rule of the state that matches at pos, 0 if none
FirstMatch(state, line, pos) ==
  LET rules == Rules(state)
      hits == { i \in 1..Len(rules) : MatchLen(rules[i].re, line, pos) >= 0 }
  IN  IF hits = {} THEN 0 ELSE CHOOSE i \in hits : \A j \in hits : i <= j

\* the characters the explored lines are made of
LexAlphabet == { "%", "\"", "\\", "[", "-", " ", "o", "f" }

RECURSIVE LinesUpTo(_)
\* the lines over LexAlphabet of length at most n
LinesUpTo(n) ==
  IF n = 0 THEN { << >> }
  ELSE LinesUpTo(n - 1) \cup
       { Append(l, c) : l \in { m \in LinesUpTo(n - 1) : Len(m) = n - 1 },
                        c \in LexAlphabet }

\* the explored lines: every short line over LexAlphabet, and every entry
\* of the keywords array alone on a line
LexInputs == LinesUpTo(MaxLineLen) \cup TokenizerKeywords

\* One step of the Monarch lexer: the first matching rule of the current
\* state classifies its match and applies its state change; when no rule
\* matches, one character is emitted with the default token "".  Monarch
\* throws when a rule matches the empty string without changing state and
\* when @pop meets a stack of depth one.
LexStep ==
  /\ lxPc = "scan"
  /\ lxPos <= Len(lxLine)
  /\ LET state == lxStack[Len(lxStack)]
         i == FirstMatch(state, lxLine, lxPos)
     IN  IF i = 0
           THEN /\ lxSpans' = Append(lxSpans, [text |-> << lxLine[lxPos] >>, class |-> ""])
                /\ lxPos' = lxPos + 1
                /\ UNCHANGED << lxStack, lxPc >>
           ELSE LET rule == Rules(state)[i]
                    n == MatchLen(rule.re, lxLine, lxPos)
                    matched == SubSeq(lxLine, lxPos, lxPos + n - 1)
                IN  IF (n = 0 /\ rule.next = "") \/ (rule.next = "@pop" /\ Len(lxStack) <= 1)
                      THEN /\ lxPc' = "error"
                           /\ UNCHANGED << lxPos, lxStack, lxSpans >>
                      ELSE /\ lxSpans' = Append(lxSpans,
                                [text |-> matched, class |-> TokenClass(rule, matched)])
                           /\ lxPos' = lxPos + n
                           /\ lxStack' =
                                CASE rule.next = "@string" -> Append(lxStack, "string")
                                  [] rule.next = "@pop" -> SubSeq(lxStack, 1, Len(lxStack) - 1)
                                  [] OTHER -> lxStack
                           /\ UNCHANGED lxPc
  /\ UNCHANGED lxLine
  /\ UNCHANGED otherThanLex

\* the end of the line has been reached
LexEnd ==
  /\ lxPc = "scan"
  /\ lxPos > Len(lxLine)
  /\ lxPc' = "done"
  /\ UNCHANGED << lxLine, lxPos, lxStack, lxSpans >>
  /\ UNCHANGED otherThanLex

\* the tokens of the line and the end state have been returned
LexHandOver ==
  /\ lxPc = "done"
  /\ lxLine' = << >>
  /\ lxPos' = 1
  /\ lxSpans' = << >>
  /\ lxPc' = "next"
  /\ UNCHANGED lxStack
  /\ UNCHANGED otherThanLex

\* a line is tokenized from root whatever the line before left
LexLineBeginFromRoot ==
  /\ lxPc = "next"
  /\ lxLine' \in LexInputs
  /\ lxPc' = "scan"
  /\ lxStack' = << "root" >>
  /\ UNCHANGED << lxPos, lxSpans >>
  /\ UNCHANGED otherThanLex

\* a line is tokenized, starting in the state the line before ended in
LexLineBegin ==
  /\ lxPc = "next"
  /\ lxLine' \in LexInputs
  /\ lxPc' = "scan"
  /\ UNCHANGED << lxPos, lxStack, lxSpans >>
  /\ UNCHANGED otherThanLex

LexInit ==
  /\ EditorInit
  /\ ViewerIdle
  /\ HostIdle
  /\ FmtIdle
  /\ ProvIdle
  /\ lxLine = << >>
  /\ lxStack = << "root" >>
  /\ lxPos = 1
  /\ lxSpans = << >>
  /\ lxPc = "next"

LexNext ==
  \/ LexStep
  \/ LexEnd
  \/ LexHandOver
  \/ LexLineBegin

SpecLex == LexInit /\ [][LexNext]_vars

RECURSIVE SpanText(_)
\* the texts of the spans, concatenated in order
SpanText(spans) ==
  IF Len(spans) = 0 THEN << >> ELSE spans[1].text \o SpanText(Tail(spans))

\* C15: from either starting state the lexer never throws, every span
\* consumes at least one character (so the scan of a line ends), and the
\* spans concatenated reproduce the part of the line scanned so far, the
\* whole line when the scan is done.
C15_SpansReproduceLine ==
  /\ lxPc # "error"
  /\ \A k \in 1..Len(lxSpans) : Len(lxSpans[k].text) >= 1
  /\ SpanText(lxSpans) = SubSeq(lxLine, 1, lxPos - 1)
  /\ lxPc = "done" => SpanText(lxSpans) = lxLine

\* a line started inside a string has been scanned to its end: a
\* backslash no rule matches, the closing quote, an unbalanced bracket and
\* a quote that opens a string left unterminated
C15_Witness ==
  /\ lxPc = "done"
  /\ lxLine = << "\\", "\"", "[", "\"" >>
  /\ Len(lxSpans) = 4
  /\ lxSpans[1].class = ""
  /\ lxStack = << "root", "string" >>

\* ------------------------------------------------------------------------
\* Part 5: the Completion Provider and the Hover Provider
\* ------------------------------------------------------------------------

\* number of lines of the buffers the providers are asked about
MaxBufferLines == 2

\* The language configuration sets no wordPattern, so the model's words
\* are those of the editor's default word definition: runs of characters
\* that are neither whitespace nor one of these separators.  (Its numeric
\* alternative needs a digit after a dot, which no explored buffer has.
\* The grave accent is a separator too; a string literal cannot hold it
\* and no explored buffer has one.)
WordSeparators ==
  { "~", "!", "@", "#", "$", "%", "^", "&", "*", "(", ")",
    "-", "=", "+", "[", "{", "]", "}", "\\", "|", ";", ":", "'",
    "\"", ",", ".", "<", ">", "/", "?" } \cup Whitespace

RECURSIVE RunBefore(_, _)
\* the length of the run of word characters that ends just before col
RunBefore(line, col) ==
  IF col > 1 /\ line[col - 1] \notin WordSeparators
    THEN 1 + RunBefore(line, col - 1)
    ELSE 0

\* the null of JavaScript, for a word
NoWord == [word |-> << >>, startColumn |-> 0, endColumn |-> 0]

\* model.getWordAtPosition(position): the word the cursor is in or next to
GetWordAtPosition(line, col) ==
  LET before == RunBefore(line, col)
      after == RunNotIn(line, col, WordSeparators)
  IN  IF before + after = 0 THEN NoWord
      ELSE [word |-> SubSeq(line, col - before, col + after - 1),
            startColumn |-> col - before,
            endColumn |-> col + after]

\* model.getWordUntilPosition(position): that word cut at the cursor
GetWordUntilPosition(line, col) ==
  LET at == GetWordAtPosition(line, col)
  IN  IF at = NoWord
        THEN [word |-> << >>, startColumn |-> col, endColumn |-> col]
        ELSE [word |-> SubSeq(line, at.startColumn, col - 1),
              startColumn |-> at.startColumn,
              endColumn |-> col]

\* const range = { ... } of provideCompletionItems
CompletionRangeCollapsed(lineNo, word) ==
  [startLineNumber |-> lineNo,
   endLineNumber   |-> lineNo,
   startColumn     |-> word.endColumn,
   endColumn       |-> word.endColumn]

CompletionRange(lineNo, word) ==
  [startLineNumber |-> lineNo,
   endLineNumber   |-> lineNo,
   startColumn     |-> word.startColumn,
   endColumn       |-> word.endColumn]

\* const keywords = [...] of provideCompletionItems
CompletionKeywords ==
  << << "g", "r", "a", "p", "h" >>,
     << "f", "l", "o", "w", "c", "h", "a", "r", "t" >>,
     << "T", "D" >>,
     << "T", "B" >>,
     << "B", "T" >>,
     << "R", "L" >>,
     << "L", "R" >>,
     << "s", "u", "b", "g", "r", "a", "p", "h" >>,
     << "e", "n", "d" >>,
     << "c", "l", "a", "s", "s", "D", "i", "a", "g", "r", "a", "m" >>,
     << "s", "t", "a", "t", "e", "D", "i", "a", "g", "r", "a", "m", "-", "v", "2" >>,
     << "s", "e", "q", "u", "e", "n", "c", "e", "D", "i", "a", "g", "r", "a", "m" >>,
     << "g", "a", "n", "t", "t" >>,
     << "p", "i", "e" >>,
     << "e", "r", "D", "i", "a", "g", "r", "a", "m" >>,
     << "j", "o", "u", "r", "n", "e", "y" >>,
     << "p", "a", "r", "t", "i", "c", "i", "p", "a", "n", "t" >>,
     << "a", "c", "t", "o", "r" >>,
     << "l", "o", "o", "p" >>,
     << "a", "l", "t" >>,
     << "o", "p", "t" >>,
     << "r", "e", "c", "t" >>,
     << "n", "o", "t", "e" >>,
     << "c", "l", "a", "s", "s", "D", "e", "f" >>,
     << "s", "t", "y", "l", "e" >>,
     << "c", "l", "i", "c", "k" >> >>

\* const SNIPPETS = [...]
SNIPPETS ==
  << [label |-> << "F", "l", "o", "w", "c", "h", "a", "r", "t", " ", "(", "T", "D", ")" >>,
      detail |-> "Top-Down Flowchart",
      insertText |-> "graph TD\n    A[Start] --> B{Decision}\n    B -->|Yes| C[OK]\n    B -->|No| D[Cancel]"],
     [label |-> << "F", "l", "o", "w", "c", "h", "a", "r", "t", " ", "(", "L", "R", ")" >>,
      detail |-> "Left-Right Flowchart",
      insertText |-> "graph LR\n    A[Start] --> B{Decision}\n    B -->|Yes| C[OK]\n    B -->|No| D[Cancel]"],
     [label |-> << "S", "e", "q", "u", "e", "n", "c", "e", " ", "D", "i", "a", "g", "r", "a", "m" >>,
      detail |-> "Interaction Diagram",
      insertText |-> "sequenceDiagram\n    participant Alice\n    participant Bob\n    Alice->>John: Hello John, how are you?\n    loop Healthcheck\n        John->>John: Fight against hypochondria\n    end\n    Note right of John: Rational thoughts <br/>prevail!\n    John-->>Alice: Great!\n    John->>Bob: How about you?\n    Bob-->>John: Jolly good!"],
     [label |-> << "C", "l", "a", "s", "s", " ", "D", "i", "a", "g", "r", "a", "m" >>,
      detail |-> "OO Structure",
      insertText |-> "classDiagram\n    Animal <|-- Duck\n    Animal <|-- Fish\n    Animal <|-- Zebra\n    class Animal{\n        +int age\n        +String gender\n        +isMammal()\n        +mate()\n    }\n    class Duck{\n        +String beakColor\n        +swim()\n        +quack()\n    }"],
     [label |-> << "S", "t", "a", "t", "e", " ", "D", "i", "a", "g", "r", "a", "m" >>,
      detail |-> "State Machine",
      insertText |-> "stateDiagram-v2\n    [*] --> Still\n    Still --> [*]\n    Still --> Moving\n    Moving --> Still\n    Moving --> Crash\n    Crash --> [*]"],
     [label |-> << "E", "R", " ", "D", "i", "a", "g", "r", "a", "m" >>,
      detail |-> "Entity Relationship",
      insertText |-> "erDiagram\n    CUSTOMER ||--o{ ORDER : places\n    ORDER ||--|{ LINE-ITEM : contains\n    CUSTOMER }|..|{ DELIVERY-ADDRESS : uses"],
     [label |-> << "G", "a", "n", "t", "t", " ", "C", "h", "a", "r", "t" >>,
      detail |-> "Project Schedule",
      insertText |-> "gantt\n    title A Gantt Diagram\n    dateFormat  YYYY-MM-DD\n    section Section\n    A task           :a1, 2014-01-01, 30d\n    Another task     :after a1  , 20d\n    section Another\n    Task in sec      :2014-01-12  , 12d\n    another task      : 24d"],
     [label |-> << "P", "i", "e", " ", "C", "h", "a", "r", "t" >>,
      detail |-> "Circular Statistics",
      insertText |-> "pie title Pets adopted by volunteers\n    \"Dogs\" : 386\n    \"Cats\" : 85\n    \"Rats\" : 15"],
     [label |-> << "M", "i", "n", "d", "m", "a", "p" >>,
      detail |-> "Brainstorming",
      insertText |-> "mindmap\n  root((mindmap))\n    Origins\n      Long history\n      ::icon(fa fa-book)\n      Popularisation\n        British popular psychology author Tony Buzan\n    Research\n      On effectiveness<br/>and features\n      On Automatic creation\n        Uses\n            Creative techniques\n            Strategic planning\n            Argument mapping"],
     [label |-> << "G", "i", "t", "G", "r", "a", "p", "h" >>,
      detail |-> "Git History",
      insertText |-> "gitGraph\n    commit\n    commit\n    branch develop\n    checkout develop\n    commit\n    commit\n    checkout main\n    merge develop\n    commit"],
     [label |-> << "U", "s", "e", "r", " ", "J", "o", "u", "r", "n", "e", "y" >>,
      detail |-> "User Experience",
      insertText |-> "journey\n    title My working day\n    section Go to work\n      Make tea: 5: Me\n      Go upstairs: 3: Me\n      Do work: 1: Me, Cat\n    section Go home\n      Go downstairs: 5: Me\n      Sit down: 5: Me"] >>

\* keywords.map((k) => ({ label: k, kind: Keyword, insertText: k, range }))
KeywordSuggestions(range) ==
  [i \in 1..Len(CompletionKeywords) |->
     [label |-> CompletionKeywords[i],
      kind |-> "Keyword",
      insertText |-> CompletionKeywords[i],
      insertTextRules |-> "",
      detail |-> "",
      range |-> range]]

\* SNIPPETS.forEach((snippet) => suggestions.push({ ... }))
SnippetSuggestions(range) ==
  [i \in 1..Len(SNIPPETS) |->
     [label |-> SNIPPETS[i].label,
      kind |-> "Snippet",
      insertText |-> SNIPPETS[i].insertText,
      insertTextRules |-> "InsertAsSnippet",
      detail |-> SNIPPETS[i].detail,
      range |-> range]]

\* the suggestions of a provider that drops the keywords the typed word
\* is not a prefix of
SuggestionsFiltered(word, range) ==
  SelectSeq(KeywordSuggestions(range), LAMBDA sg : HasPrefix(sg.label, word.word))
    \o SnippetSuggestions(range)

\* the suggestions array returned: the typed word plays no part
Suggestions(word, range) ==
  KeywordSuggestions(range) \o SnippetSuggestions(range)

\* const HOVER_CONTENTS: Record<string, string> = { ... }, in the order
\* of the source; the grave accents of the Markdown are written '
HOVER_CONTENTS ==
  << [key |-> << "g", "r", "a", "p", "h" >>,
      doc |-> "**Flowchart**\n\nDeclares a new graph. Directions: 'TD' (Top-Down), 'LR' (Left-Right), etc."],
     [key |-> << "f", "l", "o", "w", "c", "h", "a", "r", "t" >>,
      doc |-> "**Flowchart**\n\nDeclares a new flowchart (newer syntax)."],
     [key |-> << "s", "e", "q", "u", "e", "n", "c", "e", "D", "i", "a", "g", "r", "a", "m" >>,
      doc |-> "**Sequence Diagram**\n\nAn interaction diagram that shows how processes operate with one another and in what order."],
     [key |-> << "c", "l", "a", "s", "s", "D", "i", "a", "g", "r", "a", "m" >>,
      doc |-> "**Class Diagram**\n\nDescribes the structure of a system by showing the system's classes, their attributes, operations (or methods), and the relationships among objects."],
     [key |-> << "s", "t", "a", "t", "e", "D", "i", "a", "g", "r", "a", "m" >>,
      doc |-> "**State Diagram**\n\nDescribes the behavior of a system."],
     [key |-> << "s", "t", "a", "t", "e", "D", "i", "a", "g", "r", "a", "m", "-", "v", "2" >>,
      doc |-> "**State Diagram**\n\nDescribes the behavior of a system (Version 2)."],
     [key |-> << "e", "r", "D", "i", "a", "g", "r", "a", "m" >>,
      doc |-> "**Entity Relationship Diagram**\n\nDescribes the structure of a database."],
     [key |-> << "g", "a", "n", "t", "t" >>,
      doc |-> "**Gantt Chart**\n\nA type of bar chart that illustrates a project schedule."],
     [key |-> << "p", "i", "e" >>,
      doc |-> "**Pie Chart**\n\nCircular statistical graphic."],
     [key |-> << "s", "u", "b", "g", "r", "a", "p", "h" >>,
      doc |-> "**Subgraph**\n\nPartition the graph into a subgraph."],
     [key |-> << "e", "n", "d" >>,
      doc |-> "**End**\n\nCloses a block (like 'subgraph')."],
     [key |-> << "p", "a", "r", "t", "i", "c", "i", "p", "a", "n", "t" >>,
      doc |-> "**Participant**\n\nDefine a participant in a sequence diagram."],
     [key |-> << "a", "c", "t", "o", "r" >>,
      doc |-> "**Actor**\n\nDefine an actor in a sequence diagram."],
     [key |-> << "n", "o", "t", "e" >>,
      doc |-> "**Note**\n\nAdd a note to the diagram."],
     [key |-> << "c", "l", "i", "c", "k" >>,
      doc |-> "**Click**\n\nBind a click event to a node."],
     [key |-> << "s", "t", "y", "l", "e" >>,
      doc |-> "**Style**\n\nApply specific styles to a node."],
     [key |-> << "c", "l", "a", "s", "s", "D", "e", "f" >>,
      doc |-> "**Class Definition**\n\nDefine a style class."],
     [key |-> << "-", "-", ">" >>,
      doc |-> "**Arrow**\n\nStandard link."],
     [key |-> << "-", "-", "-" >>,
      doc |-> "**Link**\n\nOpen link."] >>

HoverKeys == { HOVER_CONTENTS[i].key : i \in 1..Len(HOVER_CONTENTS) }

\* the property names every object literal inherits from Object.prototype
ObjectPrototypeNames ==
  { << "c", "o", "n", "s", "t", "r", "u", "c", "t", "o", "r" >>,
    << "t", "o", "S", "t", "r", "i", "n", "g" >>,
    << "v", "a", "l", "u", "e", "O", "f" >>,
    << "h", "a", "s", "O", "w", "n", "P", "r", "o", "p", "e", "r", "t", "y" >>,
    << "i", "s", "P", "r", "o", "t", "o", "t", "y", "p", "e", "O", "f" >>,
    << "p", "r", "o", "p", "e", "r", "t", "y", "I", "s", "E", "n", "u", "m", "e", "r", "a", "b", "l", "e" >>,
    << "t", "o", "L", "o", "c", "a", "l", "e", "S", "t", "r", "i", "n", "g" >>,
    << "_", "_", "p", "r", "o", "t", "o", "_", "_" >> }

\* HOVER_CONTENTS[name], a property read on an object literal: the own
\* entry, else the member inherited from Object.prototype, else undefined
HoverContents(name) ==
  IF name \in HoverKeys
    THEN [kind |-> "string",
          value |-> (CHOOSE e \in { HOVER_CONTENTS[i] : i \in 1..Len(HOVER_CONTENTS) } :
                       e.key = name).doc]
    ELSE IF name \in ObjectPrototypeNames
      THEN [kind |-> "inherited", value |-> "Object.prototype member"]
      ELSE [kind |-> "undefined", value |-> ""]

\* the lines the explored buffers are made of
ProviderLines ==
  { << "g", "r", "a" >>,   \* a keyword being typed,
    << "g", "r", "a", "p", "h", " ", "T", "D" >>,   \* keywords,
    << " ", " ", "m", "y", "N", "o", "d", "e" >>,   \* an identifier after whitespace,
    << "A", " ", "-", "-", ">", " ", "B" >>,   \* an arrow between identifiers,
    << "s", "u", "b", "g", "r", "a", "p", "h" >>,   \* a documented keyword,
    << "c", "o", "n", "s", "t", "r", "u", "c", "t", "o", "r" >>,   \* a name every object inherits,
    << "s", "t", "a", "t", "e", "D", "i", "a", "g", "r", "a", "m", "-", "v", "2" >>,   \* a hyphenated keyword,
    << >>   \* an empty line
  }

RECURSIVE Buffers(_)
\* the buffers of n lines
Buffers(n) ==
  IF n = 0 THEN { << >> }
  ELSE { Append(b, l) : b \in Buffers(n - 1), l \in ProviderLines }

ProviderInputs == UNION { Buffers(n) : n \in 1..MaxBufferLines }

\* provideCompletionItems(model, position)
ProvideCompletionItems ==
  /\ cResult = << >>
  /\ LET word == GetWordUntilPosition(pBuffer[pLineNo], pCol)
         range == CompletionRange(pLineNo, word)
     IN  cResult' = << [suggestions |-> Suggestions(word, range), range |-> range] >>
  /\ UNCHANGED << pBuffer, pLineNo, pCol, hResult >>
  /\ UNCHANGED otherThanProv

\* provideHover(model, position)
ProvideHover ==
  /\ hResult = << >>
  /\ LET word == GetWordAtPosition(pBuffer[pLineNo], pCol)
     IN  IF word = NoWord
           THEN hResult' = << [isNull |-> TRUE, kind |-> "", value |-> ""] >>
           ELSE LET content == HoverContents(word.word)
                IN  IF content.kind = "undefined"
                      THEN hResult' = << [isNull |-> TRUE, kind |-> "", value |-> ""] >>
                      ELSE hResult' = << [isNull |-> FALSE, kind |-> content.kind,
                                          value |-> content.value] >>
  /\ UNCHANGED << pBuffer, pLineNo, pCol, cResult >>
  /\ UNCHANGED otherThanProv

ProvInit ==
  /\ EditorInit
  /\ ViewerIdle
  /\ HostIdle
  /\ FmtIdle
  /\ LexIdle
  /\ pBuffer \in ProviderInputs
  /\ pLineNo \in 1..Len(pBuffer)
  /\ pCol \in 1..(Len(pBuffer[pLineNo]) + 1)
  /\ cResult = << >>
  /\ hResult = << >>

ProvNext ==
  \/ ProvideCompletionItems
  \/ ProvideHover

SpecProviders == ProvInit /\ [][ProvNext]_vars

\* the line the cursor is on
CursorLine == pBuffer[pLineNo]

IsWordChar(line, i) == i \in 1..Len(line) /\ line[i] \notin WordSeparators

C18_HoverExactlyOnKeys ==
  hResult # << >> =>
    LET w == GetWordAtPosition(CursorLine, pCol)
    IN  IF w # NoWord /\ w.word \in HoverKeys
          THEN /\ ~hResult[1].isNull
               /\ hResult[1].kind = "string"
               /\ \E i \in 1..Len(HOVER_CONTENTS) :
                    /\ HOVER_CONTENTS[i].key = w.word
                    /\ HOVER_CONTENTS[i].doc = hResult[1].value
          ELSE hResult[1].isNull

\* C19 as stated: the tokenizer's keyword list and the completion provider's
\* keyword list have the same members, and every key of the hover doc table
\* is one of them.
\* (The completion provider's list is read off the Keyword candidates it
\* returns.)
C19_KeywordSetSingleSourced ==
  cResult # << >> =>
    LET sg == cResult[1].suggestions
        offered == { sg[i].label : i \in { k \in 1..Len(sg) : sg[k].kind = "Keyword" } }
    IN  /\ TokenizerKeywords = offered
        /\ HoverKeys \subseteq TokenizerKeywords

\* ------------------------------------------------------------------------
\* The Formatter, continued
\* ------------------------------------------------------------------------

\* the lines of ls that are not blank
NonBlank(ls) == SelectSeq(ls, LAMBDA l : Trim(l) # << >>)

RECURSIVE LevelAfter(_)
\* the indent level that a sequence of non-blank lines leaves behind
LevelAfter(ls) ==
  IF Len(ls) = 0 THEN 0
  ELSE LET t == Trim(ls[Len(ls)])
           before == LevelAfter(SubSeq(ls, 1, Len(ls) - 1))
           at == IF BlockClosers(t) THEN Max(0, before - 1) ELSE before
       IN  IF BlockOpeners(t) THEN at + 1 ELSE at

\* the level at which the last line of a sequence of non-blank lines is emitted
LevelAt(ls) ==
  LET before == LevelAfter(SubSeq(ls, 1, Len(ls) - 1))
  IN  IF BlockClosers(Trim(ls[Len(ls)])) THEN Max(0, before - 1) ELSE before

\* C21: an empty or whitespace-only line is emitted as the empty string and
\* leaves indentLevel unchanged; hence the indentation of every other line
\* is the one it has in the text without its blank lines.
C21_BlankLinesPassThrough ==
  /\ [](\A j \in 1..Len(fOut) :
          IF Trim(fLines[j]) = << >>
            THEN fOut[j] = << >>
            ELSE Indentation(fOut[j])
                   = indentSize * LevelAt(NonBlank(SubSeq(fLines, 1, j))))
  /\ [][ ( /\ fPc = "loop"
           /\ fI <= Len(fLines)
           /\ fI' = fI + 1
           /\ Trim(fLines[fI]) = << >> )
         => ( /\ fOut' = Append(fOut, << >>)
              /\ fIndent' = fIndent ) ]_vars

\* a whitespace-only line below an opener has been emitted empty, and the
\* line after it is one level in
C21_Witness ==
  /\ fPass = 1
  /\ Len(fOut) = 3
  /\ fLines[1] = << "g", "r", "a", "p", "h", " ", "T", "D" >>
  /\ fLines[2] = << " ", " " >>
  /\ fOut[2] = << >>
  /\ fOut[3] = << " ", " ", " ", " ", "A", "-", "-", ">", "B" >>

\* C22: the formatter changes leading and trailing whitespace only: the
\* output has as many lines as the input, and its i-th line is
\* indentLevel x 4 spaces followed by the trimmed i-th input line (the empty
\* string for a blank line), so that trimming it gives the trimmed input
\* line.
C22_OnlyIndentationChanges ==
  /\ [](/\ fPc = "loop" => Len(fOut) = fI - 1
        /\ \A j \in 1..Len(fOut) :
             /\ fOut[j] = [k \in 1..Indentation(fOut[j]) |-> " "] \o Trim(fLines[j])
             /\ Trim(fOut[j]) = Trim(fLines[j])
        /\ fPc = "done" =>
             /\ Len(SplitNl(fResult)) = Len(fLines)
             /\ \A j \in 1..Len(fLines) : Trim(SplitNl(fResult)[j]) = Trim(fLines[j]))
  /\ [][ ( /\ fPc = "loop"
           /\ fI <= Len(fLines)
           /\ fI' = fI + 1
           /\ Trim(fLines[fI]) # << >> )
         => LET level == IF BlockClosers(Trim(fLines[fI]))
                           THEN Max(0, fIndent - 1) ELSE fIndent
            IN  /\ Len(fOut') = fI
                /\ Indentation(fOut'[fI]) = level * indentSize ]_vars

\* the edit has been returned for a text whose second line came with a tab
\* before and two spaces after its content
C22_Witness ==
  /\ fPc = "done"
  /\ fPass = 1
  /\ fLines = << << "g", "r", "a", "p", "h", " ", "T", "D" >>,
                 << "\t", "A", "-", "-", ">", "B", " ", " " >>,
                 << " ", " ", "e", "n", "d", " " >> >>
  /\ SplitNl(fResult) = << << "g", "r", "a", "p", "h", " ", "T", "D" >>,
                           << " ", " ", " ", " ", "A", "-", "-", ">", "B" >>,
                           << "e", "n", "d" >> >>

\* ------------------------------------------------------------------------
\* The Tokenizer, continued
\* ------------------------------------------------------------------------

\* the state the lexer is in
LexState == lxStack[Len(lxStack)]

\* the lexer is about to classify the character at lxPos
Scanning == lxPc = "scan" /\ lxPos <= Len(lxLine)

\* the span the step has appended
NewSpan == lxSpans'[Len(lxSpans')]

\* C23: in root state an identifier run, a letter followed by word
\* characters or $, taken as long as it goes, is classified keyword if
\* and only if the whole run is a member of the tokenizer's keyword list,
\* and identifier otherwise.
C23_KeywordIffWholeRun ==
  [][ ( /\ Scanning
        /\ LexState = "root"
        /\ lxLine[lxPos] \in Letters
        /\ lxPos' # lxPos )
      => LET n == 1 + RunIn(lxLine, lxPos + 1, WordChars \cup { "$" })
             run == SubSeq(lxLine, lxPos, lxPos + n - 1)
         IN  /\ lxPos' = lxPos + n
             /\ Len(lxSpans') = Len(lxSpans) + 1
             /\ NewSpan.text = run
             /\ NewSpan.class = "keyword" <=> run \in TokenizerKeywords
             /\ NewSpan.class = "identifier" <=> run \notin TokenizerKeywords ]_vars

\* "off", which starts with the keyword "of", has been classified
C23_Witness ==
  /\ lxPc = "done"
  /\ lxLine = << "o", "f", "f" >>
  /\ lxSpans = << [text |-> << "o", "f", "f" >>, class |-> "identifier"] >>

\* C24 as stated: every member of the tokenizer's keyword list, the
\* hyphenated ones included, alone on a line tokenized from root, comes
\* out as exactly one span that covers it and has class keyword.
C24_EveryKeywordOneSpan ==
  (lxPc = "done" /\ lxStack = << "root" >> /\ lxLine \in TokenizerKeywords)
    => lxSpans = << [text |-> lxLine, class |-> "keyword"] >>

\* C25: the lexer state is root or string, never nested deeper; a double
\* quote met in root enters string, a double quote met in string returns
\* to root, a step at any other character leaves the state alone, and the
\* state a line ends in, string for an unterminated string, is the state
\* the next line starts in.
C25_RootOrString ==
  /\ [](lxStack \in { << "root" >>, << "root", "string" >> })
  /\ [][ (Scanning /\ lxPos' # lxPos) =>
           IF lxLine[lxPos] = "\""
             THEN /\ lxPos' = lxPos + 1
                  /\ LexState = "root" => lxStack' = << "root", "string" >>
                  /\ LexState = "string" => lxStack' = << "root" >>
             ELSE lxStack' = lxStack ]_vars
  /\ [][ ~Scanning => lxStack' = lxStack ]_vars

\* a line is about to be tokenized in string state: the line before it
\* ended inside a string
C25_Witness ==
  /\ lxPc = "scan"
  /\ lxPos = 1
  /\ lxSpans = << >>
  /\ lxLine = << "o", "\"", "f" >>
  /\ lxStack = << "root", "string" >>

\* C26: the rules of the current state are tried in order and the first
\* that matches is applied; in root, %% at the current position makes the
\* whole rest of the line one comment span, whatever follows it, and in
\* string %% is taken into a string span and starts no comment.
C26_CommentToEndOfLine ==
  [][ (Scanning /\ lxPos' # lxPos) =>
        /\ FirstMatch(LexState, lxLine, lxPos) # 0 =>
             LET first == Rules(LexState)[FirstMatch(LexState, lxLine, lxPos)]
                 n == MatchLen(first.re, lxLine, lxPos)
             IN  /\ NewSpan.text = SubSeq(lxLine, lxPos, lxPos + n - 1)
                 /\ NewSpan.class = TokenClass(first, NewSpan.text)
                 /\ lxPos' = lxPos + n
        /\ ( /\ lxPos < Len(lxLine)
             /\ lxLine[lxPos] = "%"
             /\ lxLine[lxPos + 1] = "%" ) =>
             IF LexState = "root"
               THEN /\ NewSpan = [text |-> SubSeq(lxLine, lxPos, Len(lxLine)),
                                  class |-> "comment"]
                    /\ lxPos' = Len(lxLine) + 1
                    /\ lxStack' = lxStack
               ELSE /\ NewSpan.class = "string"
                    /\ Len(NewSpan.text) >= 2
                    /\ lxStack' = lxStack ]_vars

\* a comment has swallowed a delimiter and a quote, and the line ended in
\* root
C26_Witness ==
  /\ lxPc = "done"
  /\ lxLine = << "%", "%", "[", "\"" >>
  /\ lxSpans = << [text |-> << "%", "%", "[", "\"" >>, class |-> "comment"] >>
  /\ lxStack = << "root" >>

\* ------------------------------------------------------------------------
\* The Hover Provider, continued
\* ------------------------------------------------------------------------

\* C27 as stated: every key of the doc table is reachable; hovering on an
\* occurrence of a key, taken as the maximal run of word and operator
\* characters (characters other than whitespace) touching the cursor,
\* returns that key's documentation, also for -->, --- and
\* stateDiagram-v2.
C27_EveryHoverKeyReachable ==
  hResult # << >> =>
    LET line == CursorLine
        from == CHOOSE a \in 1..pCol :
                  /\ \A k \in a..(pCol - 1) : line[k] \notin Whitespace
                  /\ a = 1 \/ line[a - 1] \in Whitespace
        to == CHOOSE b \in (pCol - 1)..Len(line) :
                /\ \A k \in pCol..b : line[k] \notin Whitespace
                /\ b = Len(line) \/ line[b + 1] \in Whitespace
        token == SubSeq(line, from, to)
    IN  token \in HoverKeys =>
          /\ ~hResult[1].isNull
          /\ \E i \in 1..Len(HOVER_CONTENTS) :
               /\ HOVER_CONTENTS[i].key = token
               /\ HOVER_CONTENTS[i].doc = hResult[1].value

\* ------------------------------------------------------------------------
\* Part 6: MermaidViewer's theme and render effects, and renderLightMermaid
\* ------------------------------------------------------------------------

\* number of runs of the render effect explored, the one at mount included
MaxPasses == 3
\* number of exports in flight at a time
MaxExports == 2

\* the values the diagram prop takes
ViewerDiagrams ==
  { DEFAULT_DIAGRAM, "graph LR\n    A --> B", "bogus", "  \n" }

\* isDark ? "dark" : "default"
Themes == { "default", "dark" }

\* One run of the render effect: its closure (diagram, isMounted), how far
\* renderDiagram has come, and the configuration theme under which it
\* called mermaid.render
NewPass(d) == [diagram |-> d, pc |-> "timer", isMounted |-> TRUE, cfg |-> ""]

\* a run whose closure nothing will call again: "cancelled" when its
\* timeout was cleared, and when renderDiagram returned after the run was
\* cleaned up, "skipped" (before mermaid.render) or "dropped" (after it)
Gone(how) == [diagram |-> "", pc |-> how, isMounted |-> FALSE, cfg |-> ""]

\* the cleanup of the render effect, kept without its clearTimeout and
\* without isMounted = false
CleanupNothing(ps) == ps

\* the cleanup of the render effect: isMounted = false; clearTimeout(timeoutId)
Cleanup(ps) ==
  [i \in 1..Len(ps) |->
     CASE ps[i].pc = "timer" -> Gone("cancelled")
       [] ps[i].pc = "done" -> Gone("dropped")
       [] OTHER -> [ps[i] EXCEPT !.isMounted = FALSE]]

\* renderDiagram of run i has returned
Returned(ps, i) ==
  IF ps[i].isMounted
    THEN [ps EXCEPT ![i].pc = "done"]
    ELSE [ps EXCEPT ![i] = Gone(IF ps[i].pc = "wait" THEN "skipped" ELSE "dropped")]

\* the render effect runs again: the cleanup of the run before, then
\* setTimeout(renderDiagram, 300) in a new closure
RunRenderEffect(d) == passes' = Append(Cleanup(passes), NewPass(d))

\* the parent passes another diagram
DiagramChange(d) ==
  /\ vMounted
  /\ d # vDiagram
  /\ Len(passes) < MaxPasses
  /\ vDiagram' = d
  /\ RunRenderEffect(d)
  /\ UNCHANGED << vTheme, vMounted, innerHTML, isRendering, viewerError,
                  renderComplete, configTheme, exports >>
  /\ UNCHANGED otherThanViewer

\* the user's theme setting changes: the theme effect calls
\* mermaid.initialize and setMermaidTheme, and the render effect runs again
ThemeChange(t) ==
  /\ vMounted
  /\ t # vTheme
  /\ Len(passes) < MaxPasses
  /\ vTheme' = t
  /\ configTheme' = t
  /\ RunRenderEffect(vDiagram)
  /\ UNCHANGED << vDiagram, vMounted, innerHTML, isRendering, viewerError,
                  renderComplete, exports >>
  /\ UNCHANGED otherThanViewer

\* the 300 ms timeout calls renderDiagram, which starts its 50 ms wait
TimeoutFire(i) ==
  /\ passes[i].pc = "timer"
  /\ passes' = [passes EXCEPT ![i].pc = "wait"]
  /\ UNCHANGED << vDiagram, vTheme, vMounted, innerHTML, isRendering,
                  viewerError, renderComplete, configTheme, exports >>
  /\ UNCHANGED otherThanViewer

\* renderDiagram from the end of its 50 ms wait to its return or to its
\* await of mermaid.render
RenderBegin(i) ==
  /\ passes[i].pc = "wait"
  /\ IF ~passes[i].isMounted \/ ~vMounted
       THEN /\ passes' = Returned(passes, i)
            /\ UNCHANGED << innerHTML, isRendering, viewerError, renderComplete >>
       ELSE IF IsBlank(passes[i].diagram)
         THEN /\ innerHTML' = NoSvg
              /\ viewerError' = << >>
              /\ isRendering' = FALSE
              /\ renderComplete' = << NoSvg >>
              /\ passes' = Returned(passes, i)
         ELSE /\ isRendering' = TRUE
              /\ viewerError' = << >>
              /\ innerHTML' = NoSvg
              /\ passes' = [passes EXCEPT ![i].pc = "render", ![i].cfg = configTheme]
              /\ UNCHANGED renderComplete
  /\ UNCHANGED << vDiagram, vTheme, vMounted, configTheme, exports >>
  /\ UNCHANGED otherThanViewer

\* mermaid.render(id, diagram) rejects on the contents mermaid.parse rejects
RenderThrows(d) == Parse(d).kind # "ok"

\* the svg mermaid.render resolves with, drawn in the theme of the
\* configuration under which it was called
SvgOf(pass) == [diagram |-> pass.diagram, theme |-> pass.cfg]

\* renderDiagram from the settling of mermaid.render to its return
RenderSettle(i) ==
  /\ passes[i].pc = "render"
  /\ passes' = Returned(passes, i)
  /\ IF RenderThrows(passes[i].diagram)
       THEN IF ~passes[i].isMounted
              THEN UNCHANGED << innerHTML, isRendering, viewerError, renderComplete >>
              ELSE /\ viewerError' = << Parse(passes[i].diagram).message >>
                   /\ isRendering' = FALSE
                   /\ renderComplete' = << NoSvg >>
                   /\ UNCHANGED innerHTML
       ELSE IF ~passes[i].isMounted \/ ~vMounted
              THEN /\ isRendering' = IF vMounted THEN FALSE ELSE isRendering
                   /\ UNCHANGED << innerHTML, viewerError, renderComplete >>
              ELSE /\ innerHTML' = SvgOf(passes[i])
                   /\ renderComplete' = << SvgOf(passes[i]) >>
                   /\ isRendering' = FALSE
                   /\ UNCHANGED viewerError
  /\ UNCHANGED << vDiagram, vTheme, vMounted, configTheme, exports >>
  /\ UNCHANGED otherThanViewer

\* the component unmounts: the cleanup runs and the ref is cleared
Unmount ==
  /\ vMounted
  /\ vMounted' = FALSE
  /\ passes' = Cleanup(passes)
  /\ UNCHANGED << vDiagram, vTheme, innerHTML, isRendering, viewerError,
                  renderComplete, configTheme, exports >>
  /\ UNCHANGED otherThanViewer

\* renderLightMermaid up to its await of mermaid.render: currentTheme is
\* taken from the user's setting, the renderer is set to the light theme
ExportBegin ==
  /\ vMounted
  /\ ~IsBlank(vDiagram)
  /\ Len(exports) < MaxExports
  /\ exports' = Append(exports, [currentTheme |-> vTheme])
  /\ configTheme' = "default"
  /\ UNCHANGED << vDiagram, vTheme, vMounted, passes, innerHTML, isRendering,
                  viewerError, renderComplete >>
  /\ UNCHANGED otherThanViewer

\* mermaid.render of an export settles, fulfilled or rejected: the finally
\* clause sets the renderer to currentTheme
ExportSettle(k) ==
  /\ exports' = [j \in 1..(Len(exports) - 1) |->
                   IF j < k THEN exports[j] ELSE exports[j + 1]]
  /\ configTheme' = exports[k].currentTheme
  /\ UNCHANGED << vDiagram, vTheme, vMounted, passes, innerHTML, isRendering,
                  viewerError, renderComplete >>
  /\ UNCHANGED otherThanViewer

\* the viewer has mounted: the theme effect has configured the renderer
\* and the render effect has set its timeout
ViewerInit ==
  /\ EditorInit
  /\ HostIdle
  /\ FmtIdle
  /\ LexIdle
  /\ ProvIdle
  /\ vDiagram = DEFAULT_DIAGRAM
  /\ vTheme \in Themes
  /\ vMounted = TRUE
  /\ passes = << NewPass(DEFAULT_DIAGRAM) >>
  /\ innerHTML = NoSvg
  /\ isRendering = FALSE
  /\ viewerError = << >>
  /\ renderComplete = << >>
  /\ configTheme = vTheme
  /\ exports = << >>

ViewerNext ==
  \/ \E d \in ViewerDiagrams : DiagramChange(d)
  \/ \E t \in Themes : ThemeChange(t)
  \/ \E i \in 1..Len(passes) : TimeoutFire(i)
  \/ \E i \in 1..Len(passes) : RenderBegin(i)
  \/ \E i \in 1..Len(passes) : RenderSettle(i)
  \/ Unmount
  \/ ExportBegin
  \/ \E k \in 1..Len(exports) : ExportSettle(k)

SpecViewer == ViewerInit /\ [][ViewerNext]_vars

\* the run the render effect started last
Latest == passes[Len(passes)]

\* run i has been superseded by a later run, or the component has unmounted
Superseded(i) == i < Len(passes) \/ ~vMounted

\* renderDiagram of run i takes a step
Acts(i) ==
  /\ Len(passes') = Len(passes)
  /\ passes[i].pc \in { "wait", "render" }
  /\ passes'[i] # passes[i]

\* no closure of the render effect is waiting or rendering
AllRendersResolved ==
  \A i \in 1..Len(passes) : passes[i].pc \notin { "timer", "wait", "render" }

C29_IsRenderingTracksLatest ==
  /\ (vMounted /\ Latest.pc = "render") => isRendering
  /\ (vMounted /\ Latest.pc = "done") => ~isRendering

\* C30 as stated: while no export is in flight the theme of the renderer's
\* configuration is the theme derived from the user's setting, and no
\* render of the current viewer pass runs under another theme than that.
C30_RendererThemeIsUsersTheme ==
  /\ (vMounted /\ exports = << >>) => configTheme = vTheme
  /\ \A i \in 1..Len(passes) :
       (passes[i].pc = "render" /\ passes[i].isMounted) => passes[i].cfg = vTheme
====
